---------------------------- MODULE Spec2Model ----------------------------
(***************************************************************************)
(* Model of vm/src/value.rs of gluon: the runtime Value, the placement     *)
(* definitions (Def, ClosureDataDef, ClosureInitDef,                       *)
(* PartialApplicationDataDef), traversal, equality and the cross           *)
(* generation deep_clone.                                                  *)
(*                                                                         *)
(* deep_clone is recursive; the model runs it as a machine with an         *)
(* explicit call stack.  One frame is one activation of deep_clone (and    *)
(* of the deep_clone_data / _closure / _app it dispatches to).             *)
(***************************************************************************)
EXTENDS Naturals, Sequences, FiniteSets, TLC

VARIABLES
    heap,     \* address -> heap object (source heaps and the target heap)
    heap0,    \* the heap as it was when deep_clone was called (history)
    gcGen,    \* gc.generation() of the target heap
    visited,  \* HashMap<*const (), Value>: source address -> cloned Value
    stack,    \* activations of deep_clone, innermost first
    ret,      \* what the activation that returned last has returned
    top,      \* the value the outermost deep_clone was called with
    steps,    \* steps deep_clone has taken since it was called (history)
    arg,      \* input of the pure operation under test (definitions, equality)
    out       \* its output

vars == <<heap, heap0, gcGen, visited, stack, ret, top, steps, arg, out>>

---------------------------------------------------------------------------
(* Bounds *)

\* longest field / upvalue / argument sequence of the object under clone
MaxSlots == 2
\* number of free cells of the target heap
MaxAllocs == 6

---------------------------------------------------------------------------
(* Values and heap objects *)

\* enum Value: the variant and its payload (an integer, or a heap address)
Val(variant, payload) == [v |-> variant, p |-> payload]

HeapVariants ==
    {"String", "Data", "Function", "Closure", "PartialApplication",
     "Userdata", "Thread"}

\* enum Callable, and the GcPtr<BytecodeFunction> of a closure
Callable(c, ptr) == [c |-> c, p |-> ptr]
NoFunction == Callable("None", 0)

\* A heap cell.  kind "Free" is unallocated memory.  slots holds
\* DataStruct.fields, ClosureData.upvars or PartialApplicationData.arguments.
Object(kind, gen, tag, function, slots, bytes) ==
    [kind |-> kind, gen |-> gen, tag |-> tag, function |-> function,
     slots |-> slots, bytes |-> bytes]

FreeCell == Object("Free", 0, 0, NoFunction, <<>>, <<>>)

\* the heap kind a Value variant points to
KindOf(variant) ==
    CASE variant = "String" -> "Str"
      [] variant = "Data" -> "DataStruct"
      [] variant = "Function" -> "ExternFunction"
      [] variant = "Closure" -> "ClosureData"
      [] variant = "PartialApplication" -> "PartialApplicationData"
      [] variant = "Userdata" -> "Userdata"
      [] variant = "Thread" -> "Thread"
      [] OTHER -> "None"

\* Value::generation
generation(h, value) ==
    IF value.v \in HeapVariants THEN h[value.p].gen ELSE 0


---------------------------------------------------------------------------
(* Placement definitions: DataDef::initialize *)

\* struct Def { tag, elems }
Def(tag, elems) ==
    [def |-> "Def", tag |-> tag, function |-> NoFunction, elems |-> elems,
     count |-> 0]
\* struct ClosureDataDef(function, upvars)
ClosureDataDef(function, upvars) ==
    [def |-> "ClosureDataDef", tag |-> 0, function |-> function,
     elems |-> upvars, count |-> 0]
\* struct ClosureInitDef(function, count)
ClosureInitDef(function, count) ==
    [def |-> "ClosureInitDef", tag |-> 0, function |-> function,
     elems |-> <<>>, count |-> count]
\* struct PartialApplicationDataDef(callable, arguments)
PartialApplicationDataDef(callable, arguments) ==
    [def |-> "PartialApplicationDataDef", tag |-> 0, function |-> callable,
     elems |-> arguments, count |-> 0]

\* Def::initialize: result.tag = self.tag; fields copied in order
Def_initialize(d) ==
    Object("DataStruct", 0, d.tag, NoFunction, d.elems, <<>>)

\* ClosureDataDef::initialize: result.function = self.0; upvars copied
ClosureDataDef_initialize(d) ==
    Object("ClosureData", 0, 0, d.function, d.elems, <<>>)

\* ClosureInitDef::initialize without upvars.set_len(self.1)
ClosureInitDef_initialize_no_len(d) ==
    Object("ClosureData", 0, 0, d.function, <<>>, <<>>)

\* ClosureInitDef::initialize: set_len(self.1), every slot written Int(0)
ClosureInitDef_initialize(d) ==
    Object("ClosureData", 0, 0, d.function,
           [i \in 1..d.count |-> Val("Int", 0)], <<>>)

\* PartialApplicationDataDef::initialize: function = self.0; arguments copied
PartialApplicationDataDef_initialize(d) ==
    Object("PartialApplicationData", 0, 0, d.function, d.elems, <<>>)

\* DataDef::initialize, dispatched on the definition's type
initialize(d) ==
    CASE d.def = "Def" -> Def_initialize(d)
      [] d.def = "ClosureDataDef" -> ClosureDataDef_initialize(d)
      [] d.def = "ClosureInitDef" -> ClosureInitDef_initialize(d)
      [] d.def = "PartialApplicationDataDef" ->
            PartialApplicationDataDef_initialize(d)

---------------------------------------------------------------------------
(* The heaps *)

\* Addresses of the objects that exist before deep_clone is called.
A ==
    [root |-> 1, other |-> 2, strYoung |-> 3, strMid |-> 4, fnYoung |-> 5,
     fnOld |-> 6, userdata |-> 7, thread |-> 8, codeYoung |-> 9,
     codeOld |-> 10, closure |-> 11]

SourceAddr == 1..11
Addr == 1..(11 + MaxAllocs)

\* generations of heaps: the target is one of the two older ones
TargetGenerations == {0, 1}

FreeAddrs(h) == {a \in Addr : h[a].kind = "Free"}

\* the allocator's choice of a cell: the lowest free address
NewPtr(h) == CHOOSE a \in FreeAddrs(h) : \A b \in FreeAddrs(h) : a <= b

\* gc.alloc(def): a fresh cell of the target heap, initialized by def, whose
\* reference carries the target heap's generation
GcAlloc(h, g, obj) ==
    LET ptr == NewPtr(h)
    IN  [heap |-> [h EXCEPT ![ptr] = [obj EXCEPT !.gen = g]], ptr |-> ptr]

---------------------------------------------------------------------------
(* deep_clone *)

None == [tag |-> "None", value |-> Val("Int", 0)]
Ok(value) == [tag |-> "Ok", value |-> value]
\* Err(Error::Message("Threads, Userdata and Extern functions cannot be deep
\* cloned yet"))
Err == [tag |-> "Err", value |-> Val("Int", 0)]
\* unreachable!()
Panic == [tag |-> "Panic", value |-> Val("Int", 0)]

Frame(pc, value, new_data, i) ==
    [pc |-> pc, value |-> value, new_data |-> new_data, i |-> i]

\* What one entry into deep_clone does before it recurses: the heap and
\* visited it leaves, the result it returns (None: it goes on into the loop
\* over the slots of new_data).
Outcome(h, vis, result, new_data) ==
    [heap |-> h, visited |-> vis, result |-> result, new_data |-> new_data]

\* deep_clone_ptr that takes every entry for vacant: it allocates and inserts
\* over the value recorded before
deep_clone_ptr_overwrite(h, vis, g, key, variant, obj) ==
    LET a == GcAlloc(h, g, obj)
        value == Val(variant, a.ptr)
    IN  [ok |-> FALSE, value |-> value, heap |-> a.heap,
         visited |-> (key :> value) @@ vis, new_ptr |-> a.ptr]

\* deep_clone_ptr without entry.insert(value)
deep_clone_ptr_no_insert(h, vis, g, key, variant, obj) ==
    IF key \in DOMAIN vis
    THEN [ok |-> TRUE, value |-> vis[key], heap |-> h, visited |-> vis,
          new_ptr |-> 0]
    ELSE LET a == GcAlloc(h, g, obj)
         IN  [ok |-> FALSE, value |-> Val(variant, a.ptr), heap |-> a.heap,
              visited |-> vis, new_ptr |-> a.ptr]

\* fn deep_clone_ptr: Entry::Occupied => Ok(*entry.get()); Entry::Vacant =>
\* alloc, insert, Err(new_ptr).  obj is what the alloc closure allocates.
deep_clone_ptr(h, vis, g, key, variant, obj) ==
    IF key \in DOMAIN vis
    THEN [ok |-> TRUE, value |-> vis[key], heap |-> h, visited |-> vis,
          new_ptr |-> 0]
    ELSE LET a == GcAlloc(h, g, obj)
             value == Val(variant, a.ptr)
         IN  [ok |-> FALSE, value |-> value, heap |-> a.heap,
              visited |-> (key :> value) @@ vis, new_ptr |-> a.ptr]

\* deep_clone_str that allocates the string without its bytes
deep_clone_str_no_bytes(h, vis, g, data) ==
    LET r == deep_clone_ptr(h, vis, g, data, "String",
                 Object("Str", 0, 0, NoFunction, <<>>, <<>>))
    IN  Outcome(r.heap, r.visited,
                Ok(IF r.ok THEN r.value ELSE Val("String", r.new_ptr)), 0)

\* fn deep_clone_str
deep_clone_str(h, vis, g, data) ==
    LET r == deep_clone_ptr(h, vis, g, data, "String",
                 Object("Str", 0, 0, NoFunction, <<>>, h[data].bytes))
    IN  Outcome(r.heap, r.visited,
                Ok(IF r.ok THEN r.value ELSE Val("String", r.new_ptr)), 0)

\* the match on deep_clone_ptr's result that deep_clone_data,
\* deep_clone_closure and deep_clone_app share
MatchResult(r, variant) ==
    IF r.ok
    THEN Outcome(r.heap, r.visited,
                 IF r.value.v = variant THEN Ok(Val(variant, r.value.p))
                                        ELSE Panic, 0)
    ELSE Outcome(r.heap, r.visited, None, r.new_ptr)

\* fn deep_clone_data, up to the loop over the fields
deep_clone_data(h, vis, g, data) ==
    MatchResult(deep_clone_ptr(h, vis, g, data, "Data",
                    initialize(Def(h[data].tag, h[data].slots))),
                "Data")

\* fn deep_clone_closure, up to the loop over the upvars
deep_clone_closure(h, vis, g, data) ==
    MatchResult(deep_clone_ptr(h, vis, g, data, "Closure",
                    initialize(ClosureDataDef(h[data].function,
                                              h[data].slots))),
                "Closure")

\* fn deep_clone_app, up to the loop over the arguments
deep_clone_app(h, vis, g, data) ==
    MatchResult(deep_clone_ptr(h, vis, g, data, "PartialApplication",
                    initialize(PartialApplicationDataDef(h[data].function,
                                                         h[data].slots))),
                "PartialApplication")

\* the generation test with < in place of <=
NoCloneNeeded_strict(h, g, value) == generation(h, value) < g

\* if value.generation() <= gc.generation() { return Ok(*value) }
NoCloneNeeded(h, g, value) == generation(h, value) <= g

\* fn deep_clone, up to the first recursive call
deep_clone_entry(h, vis, g, value) ==
    IF NoCloneNeeded(h, g, value) THEN Outcome(h, vis, Ok(value), 0)
    ELSE CASE value.v = "String" -> deep_clone_str(h, vis, g, value.p)
           [] value.v = "Data" -> deep_clone_data(h, vis, g, value.p)
           [] value.v = "Closure" -> deep_clone_closure(h, vis, g, value.p)
           [] value.v = "PartialApplication" ->
                 deep_clone_app(h, vis, g, value.p)
           [] value.v \in {"Function", "Userdata", "Thread"} ->
                 Outcome(h, vis, Err, 0)
           [] value.v \in {"Int", "Float"} -> Outcome(h, vis, Ok(value), 0)

Min(a, b) == IF a <= b THEN a ELSE b

\* a loop that stops one pair early
ZipLen_short(h, f) ==
    LET n == Min(Len(h[f.new_data].slots), Len(h[f.value.p].slots))
    IN  IF n = 0 THEN 0 ELSE n - 1

\* length of new_fields.iter_mut().zip(&data.fields)
ZipLen(h, f) == Min(Len(h[f.new_data].slots), Len(h[f.value.p].slots))

\* deep_clone is entered: the innermost activation runs to its first
\* recursive call or to its return.
deep_clone ==
    /\ stack # <<>>
    /\ Head(stack).pc = "call"
    /\ FreeAddrs(heap) # {}  \* the model's target heap is finite
    /\ \E o \in {deep_clone_entry(heap, visited, gcGen, Head(stack).value)} :
          /\ heap' = o.heap
          /\ visited' = o.visited
          /\ ret' = o.result
          /\ stack' = IF o.result.tag = "None"
                      THEN <<Frame("loop", Head(stack).value, o.new_data, 1)>>
                           \o Tail(stack)
                      ELSE IF o.result.tag = "Panic" THEN <<>>
                      ELSE Tail(stack)
    /\ steps' = steps + 1
    /\ UNCHANGED <<heap0, gcGen, top, arg, out>>

\* for (new, old) in new_fields.iter_mut().zip(&data.fields):
\* deep_clone(old, visited, gc) is called for the next pair
clone_slot_call ==
    /\ stack # <<>>
    /\ Head(stack).pc = "loop"
    /\ ret.tag = "None"
    /\ Head(stack).i <= ZipLen(heap, Head(stack))
    /\ stack' = <<Frame("call", heap[Head(stack).value.p].slots[Head(stack).i],
                        0, 0)>> \o stack
    /\ steps' = steps + 1
    /\ UNCHANGED <<heap, heap0, gcGen, visited, ret, top, arg, out>>

\* the assignment going to the source object instead of the new one
StoreTarget_source(f) == f.value.p

\* the slot a successful recursive call is assigned to
StoreTarget(f) == f.new_data

\* *new = try!(deep_clone(old, visited, gc)), the call having returned Ok
clone_slot_store ==
    /\ stack # <<>>
    /\ Head(stack).pc = "loop"
    /\ ret.tag = "Ok"
    /\ LET f == Head(stack)
       IN  /\ heap' = [heap EXCEPT ![StoreTarget(f)].slots[f.i] = ret.value]
           /\ stack' = <<[f EXCEPT !.i = f.i + 1]>> \o Tail(stack)
    /\ ret' = None
    /\ steps' = steps + 1
    /\ UNCHANGED <<heap0, gcGen, visited, top, arg, out>>

\* the loop going on after an Err instead of returning it
clone_slot_fail_ignored ==
    /\ stack # <<>>
    /\ Head(stack).pc = "loop"
    /\ ret.tag = "Err"
    /\ stack' = <<[Head(stack) EXCEPT !.i = Head(stack).i + 1]>>
                \o Tail(stack)
    /\ ret' = None
    /\ steps' = steps + 1
    /\ UNCHANGED <<heap, heap0, gcGen, visited, top, arg, out>>

\* try!: the call having returned Err, the error is returned at once
clone_slot_fail ==
    /\ stack # <<>>
    /\ Head(stack).pc = "loop"
    /\ ret.tag = "Err"
    /\ stack' = Tail(stack)
    /\ steps' = steps + 1
    /\ UNCHANGED <<heap, heap0, gcGen, visited, ret, top, arg, out>>

\* Ok(new_data), mapped to its Value variant by deep_clone
clone_done ==
    /\ stack # <<>>
    /\ Head(stack).pc = "loop"
    /\ ret.tag = "None"
    /\ Head(stack).i > ZipLen(heap, Head(stack))
    /\ ret' = Ok(Val(Head(stack).value.v, Head(stack).new_data))
    /\ stack' = Tail(stack)
    /\ steps' = steps + 1
    /\ UNCHANGED <<heap, heap0, gcGen, visited, top, arg, out>>

---------------------------------------------------------------------------
(* The source graphs deep_clone is run on *)

SeqsUpTo(S, n) == UNION {[1..k -> S] : k \in 0..n}

\* The objects whose shape is the same in every run: strings, native
\* functions, a userdata, a thread, compiled functions and a closure without
\* upvalues.  Generations 1 and 2 are younger than generation 0; whether
\* generation 1 is younger than the target depends on the target.
Leaf(a) ==
    CASE a = A.strYoung -> Object("Str", 2, 0, NoFunction, <<>>, <<97, 98>>)
      [] a = A.strMid -> Object("Str", 1, 0, NoFunction, <<>>, <<99>>)
      [] a = A.fnYoung -> Object("ExternFunction", 2, 0, NoFunction, <<>>, <<>>)
      [] a = A.fnOld -> Object("ExternFunction", 0, 0, NoFunction, <<>>, <<>>)
      [] a = A.userdata -> Object("Userdata", 1, 0, NoFunction, <<>>, <<>>)
      [] a = A.thread -> Object("Thread", 2, 0, NoFunction, <<>>, <<>>)
      [] a = A.codeYoung ->
            Object("BytecodeFunction", 2, 0, NoFunction, <<>>, <<>>)
      [] a = A.codeOld ->
            Object("BytecodeFunction", 0, 0, NoFunction, <<>>, <<>>)
      [] a = A.closure ->
            Object("ClosureData", 2, 0, Callable("Bytecode", A.codeOld),
                   <<>>, <<>>)
      [] OTHER -> FreeCell

\* variant and header (tag, or function, or callable) of the root object
RootShapes ==
    {[v |-> "Data", tag |-> 1, function |-> NoFunction],
     [v |-> "Closure", tag |-> 0,
      function |-> Callable("Bytecode", A.codeYoung)],
     [v |-> "Closure", tag |-> 0,
      function |-> Callable("Bytecode", A.codeOld)],
     [v |-> "PartialApplication", tag |-> 0,
      function |-> Callable("Closure", A.closure)],
     [v |-> "PartialApplication", tag |-> 0,
      function |-> Callable("Extern", A.fnYoung)]}

RootGenerations == {1, 2}

\* the second composite object, the root's variant being rv: it refers back
\* to the root, to itself, to uncloneable values, to one string twice, or is
\* older than what it refers to
OtherObjects(rv) ==
    {Object("DataStruct", 2, 0, NoFunction, <<Val(rv, A.root)>>, <<>>),
     Object("ClosureData", 2, 0, Callable("Bytecode", A.codeYoung),
            <<Val("Closure", A.other), Val("String", A.strYoung)>>, <<>>),
     Object("DataStruct", 2, 3, NoFunction,
            <<Val("Userdata", A.userdata), Val("Thread", A.thread)>>, <<>>),
     Object("PartialApplicationData", 2, 0, Callable("Closure", A.closure),
            <<Val("String", A.strYoung), Val("Closure", A.closure),
              Val("String", A.strYoung)>>, <<>>),
     Object("DataStruct", 0, 2, NoFunction,
            <<Val("String", A.strYoung), Val("Function", A.fnYoung)>>, <<>>),
     Object("DataStruct", 1, 2, NoFunction,
            <<Val("String", A.strMid), Val("Function", A.fnOld)>>, <<>>)}

VariantOfKind(kind) ==
    CASE kind = "DataStruct" -> "Data"
      [] kind = "ClosureData" -> "Closure"
      [] kind = "PartialApplicationData" -> "PartialApplication"

\* what a slot of the root object may hold
SlotValues(rv, other) ==
    {Val("Int", 5), Val("String", A.strYoung), Val("String", A.strMid),
     Val("Function", A.fnYoung), Val(rv, A.root),
     Val(VariantOfKind(other.kind), A.other)}

\* values deep_clone is called with directly, besides the root object
OtherTops ==
    {Val("Int", 5), Val("Float", 0), Val("String", A.strYoung),
     Val("String", A.strMid), Val("Function", A.fnYoung),
     Val("Function", A.fnOld), Val("Userdata", A.userdata),
     Val("Thread", A.thread), Val("Closure", A.closure)}

SourceHeap(shape, gen, slots, other) ==
    [a \in Addr |->
        IF a = A.root
        THEN Object(KindOf(shape.v), gen, shape.tag, shape.function, slots,
                    <<>>)
        ELSE IF a = A.other THEN other
        ELSE Leaf(a)]

\* no pure operation is under test
Idle == [op |-> "none"]

InitClone(h, g, value) ==
    /\ heap = h
    /\ heap0 = h
    /\ gcGen = g
    /\ visited = <<>>
    /\ stack = <<Frame("call", value, 0, 0)>>
    /\ ret = None
    /\ top = value
    /\ steps = 0
    /\ arg = Idle
    /\ out = Idle

\* deep_clone(&value, &mut HashMap::new(), gc) is called on the root of a
\* graph, on the second object of one, or on a leaf
Init ==
    \E g \in TargetGenerations :
        \/ \E shape \in RootShapes, gen \in RootGenerations :
             \E other \in OtherObjects(shape.v) :
               \E slots \in SeqsUpTo(SlotValues(shape.v, other), MaxSlots) :
                 \E value \in {Val(shape.v, A.root),
                                Val(VariantOfKind(other.kind), A.other)} :
                    InitClone(SourceHeap(shape, gen, slots, other), g, value)
        \/ \E other \in OtherObjects("Data") :
             \E value \in OtherTops :
                  InitClone(SourceHeap([v |-> "Data", tag |-> 1,
                                        function |-> NoFunction], 2, <<>>,
                                       other), g, value)

Next ==
    \/ deep_clone
    \/ clone_slot_call
    \/ clone_slot_store
    \/ clone_slot_fail
    \/ clone_done

Spec == Init /\ [][Next]_vars

\* deep_clone is an ordinary synchronous computation: it keeps running
FairSpec == Init /\ [][Next]_vars /\ WF_vars(Next)

Terminated == stack = <<>>

\* under FairSpec: deep_clone returns
Termination == <>Terminated

---------------------------------------------------------------------------
(* Vocabulary of the properties *)

Composite == {"DataStruct", "ClosureData", "PartialApplicationData"}
Cloneable == Composite \cup {"Str"}
Uncloneable == {"ExternFunction", "Userdata", "Thread"}

\* the outermost deep_clone has returned
Done == stack = <<>>
Succeeded == Done /\ ret.tag = "Ok"
Failed == Done /\ ret.tag = "Err"

\* cells allocated since deep_clone was called
NewCells == {a \in Addr : heap0[a].kind = "Free" /\ heap[a].kind # "Free"}

\* the addresses the slots of h[a] refer to
SlotRefs(h, a) ==
    {h[a].slots[i].p : i \in {j \in DOMAIN h[a].slots :
                                 h[a].slots[j].v \in HeapVariants}}

\* the address the function reference or callable of h[a] refers to
FunctionRefs(h, a) ==
    IF h[a].function.c = "None" THEN {} ELSE {h[a].function.p}

\* the addresses reachable from the set S along Step(a), S included
RECURSIVE Reachable(_, _, _)
Reachable(Step(_), S, n) ==
    LET T == S \cup UNION {Step(a) : a \in S}
    IN  IF T = S \/ n = 0 THEN S ELSE Reachable(Step, T, n - 1)

ValueRefs(value) == IF value.v \in HeapVariants THEN {value.p} ELSE {}

\* reachable from value through slots alone
SlotReach(h, value) ==
    LET Step(a) == SlotRefs(h, a)
    IN  Reachable(Step, ValueRefs(value), Cardinality(Addr))

\* reachable from value through slots, function references and callables
FullReach(h, value) ==
    LET Step(a) == SlotRefs(h, a) \cup FunctionRefs(h, a)
    IN  Reachable(Step, ValueRefs(value), Cardinality(Addr))

\* reachable from value through slots of objects younger than the target
YoungReach(h, g, value) ==
    LET Step(a) == IF h[a].gen > g /\ h[a].kind \in Composite
                   THEN SlotRefs(h, a) ELSE {}
    IN  Reachable(Step, ValueRefs(value), Cardinality(Addr))

\* the source composites this invocation has cloned, and the clone of each
ClonedComposites == {a \in DOMAIN visited : heap0[a].kind \in Composite}
CloneCell(a) == heap[visited[a].p]

\* c is what deep_clone returns in this invocation for the source value
IsCloneOf(c, value) ==
    IF generation(heap0, value) <= gcGen
    THEN c = value
    ELSE value.p \in DOMAIN visited /\ c = visited[value.p]

\* the slots of the source graph that have a corresponding slot in the clone
ClonedSlots ==
    UNION {{<<a, i>> : i \in DOMAIN heap0[a].slots} : a \in ClonedComposites}

---------------------------------------------------------------------------
(* C1: sharing preservation *)

\* the slot of the clone that corresponds to slot <<a, i>> of the source
CloneSlot(s) == CloneCell(s[1]).slots[s[2]]
SourceSlot(s) == heap0[s[1]].slots[s[2]]

SharableVariants == {"String", "Data", "Closure", "PartialApplication"}

\* C1: when deep_clone has returned Ok, any two slots of the source graph
\* (fields, upvalues, arguments, or the value deep_clone was called with)
\* that hold the same String, Data, Closure or PartialApplication reference
\* have corresponding clone slots that hold one and the same reference, and
\* every cell allocated is the one clone visited records for a source object.
C1_SharingPreserved ==
    Succeeded =>
        /\ \A s \in ClonedSlots, t \in ClonedSlots :
              (SourceSlot(s) = SourceSlot(t) /\
               SourceSlot(s).v \in SharableVariants)
                 => CloneSlot(s) = CloneSlot(t)
        /\ \A s \in ClonedSlots :
              (SourceSlot(s) = top /\ top.v \in SharableVariants)
                 => CloneSlot(s) = ret.value
        /\ \A n \in NewCells :
              \E a \in DOMAIN visited :
                 /\ visited[a].p = n
                 /\ heap0[a].kind \in Cloneable
                 /\ heap[n].kind = heap0[a].kind

\* a young string held by two different slots was cloned into one new cell
C1_Witness ==
    /\ Succeeded
    /\ \E s \in ClonedSlots, t \in ClonedSlots :
          /\ s # t
          /\ SourceSlot(s) = SourceSlot(t)
          /\ SourceSlot(s).v = "String"
          /\ generation(heap0, SourceSlot(s)) > gcGen
          /\ CloneSlot(s) = CloneSlot(t)
          /\ CloneSlot(s).p \in NewCells

---------------------------------------------------------------------------
(* C2: cycles *)

\* slot s of the source graph is a back-reference: it refers to a composite
\* object younger than the target from which, through slots of objects
\* younger than the target, the object holding s is reached again
BackReference(s) ==
    /\ SourceSlot(s).v \in {"Data", "Closure", "PartialApplication"}
    /\ generation(heap0, SourceSlot(s)) > gcGen
    /\ s[1] \in YoungReach(heap0, gcGen, SourceSlot(s))

CyclicClone ==
    Succeeded =>
        \A s \in ClonedSlots :
            BackReference(s)
               => /\ SourceSlot(s).p \in DOMAIN visited
                  /\ CloneSlot(s) = visited[SourceSlot(s).p]
                  /\ CloneSlot(s).p \in NewCells
                  /\ visited[s[1]].p \in SlotReach(heap, CloneSlot(s))

RECURSIVE SumOver(_, _)
SumOver(S, f) ==
    IF S = {} THEN 0
    ELSE LET a == CHOOSE x \in S : TRUE
         IN  f[a] + SumOver(S \ {a}, f)

\* The steps deep_clone takes on the source graph at most: one entry for
\* the value it is called with; for every slot of a composite younger than
\* the target a call, the entry it makes and an assignment; for every such
\* composite its return.
StepBound ==
    LET Young == {a \in SourceAddr : heap0[a].kind \in Composite /\
                                     heap0[a].gen > gcGen}
        Slots == [a \in SourceAddr |-> Len(heap0[a].slots)]
    IN  1 + 3 * SumOver(Young, Slots) + Cardinality(Young)

\* C2: deep_clone returns on every source graph, the cyclic ones included:
\* until it has returned it can take a step, and it takes no more steps
\* than the size of the source graph allows.  When it returns Ok every
\* back-reference slot of the clone holds the clone of the object it
\* referred to: a cell allocated by this invocation, from which the clone of
\* the slot's holder is reached again.
C2_CycleTermination ==
    /\ Done \/ ENABLED Next
    /\ steps <= StepBound
    /\ CyclicClone

\* a self-referential object was cloned into a self-referential cell
C2_Witness ==
    /\ Succeeded
    /\ top.v \in {"Data", "Closure", "PartialApplication"}
    /\ \E i \in DOMAIN heap0[top.p].slots :
          /\ heap0[top.p].slots[i] = top
          /\ heap[ret.value.p].slots[i] = ret.value
          /\ ret.value.p \in NewCells

---------------------------------------------------------------------------
(* C3: uncloneable values *)

UncloneableVariants == {"Function", "Userdata", "Thread"}

\* C3 as stated: deep_clone of a Function, Userdata or Thread, or of a Data,
\* Closure or PartialApplication from which one is reached through slots,
\* never returns Ok.
C3_AnyUncloneableRejected ==
    (Done /\ \E a \in SlotReach(heap0, top) : heap0[a].kind \in Uncloneable)
        => ret.tag = "Err"

\* C3, amended: deep_clone, called with an empty visited map on a value
\* younger than the target that is a Function, Userdata or Thread, or a
\* Data, Closure or PartialApplication from which a Function, Userdata or
\* Thread younger than the target is reached through slots of objects
\* younger than the target, returns the error.
C3_YoungUncloneableRejected ==
    (Done /\ \E a \in YoungReach(heap0, gcGen, top) :
                 heap0[a].kind \in Uncloneable /\ heap0[a].gen > gcGen)
        => ret.tag = "Err"

\* the error came from an uncloneable value nested in a composite
C3_Witness ==
    /\ Failed
    /\ top.v \in {"Data", "Closure", "PartialApplication"}
    /\ \A i \in DOMAIN heap0[top.p].slots :
          heap0[top.p].slots[i].v \notin UncloneableVariants
    /\ \E a \in YoungReach(heap0, gcGen, top) :
          heap0[a].kind \in Uncloneable /\ heap0[a].gen > gcGen

---------------------------------------------------------------------------
(* C4: the result lives in the target generation *)

\* objects at or below the target generation refer to such objects only
OldRefersToOld ==
    \A a \in SourceAddr :
        heap0[a].gen <= gcGen
           => \A b \in SlotRefs(heap0, a) \cup FunctionRefs(heap0, a) :
                 heap0[b].gen <= gcGen

\* C4: when deep_clone returns Ok(v), v and every object reachable from v
\* through fields, upvalues, function references, callables and arguments
\* is of a generation <= the target's (old objects referring to old ones).
C4_TargetResidency ==
    (Succeeded /\ OldRefersToOld)
        => \A a \in FullReach(heap, ret.value) : heap[a].gen <= gcGen

---------------------------------------------------------------------------
(* C5: generation short-circuit *)

\* C5: an activation of deep_clone whose value is of a generation <= the
\* target's returns Ok of that very value, allocates nothing and leaves
\* visited as it is.
C5_ShortCircuit ==
    [][(/\ stack # <<>>
        /\ Head(stack).pc = "call"
        /\ generation(heap, Head(stack).value) <= gcGen)
          => /\ ret' = Ok(Head(stack).value)
             /\ heap' = heap
             /\ visited' = visited
             /\ stack' = Tail(stack)]_vars

\* a nested activation has returned a source string older than the target
\* as it is, while younger objects were being cloned
C5_Witness ==
    /\ stack # <<>>
    /\ Head(stack).pc = "loop"
    /\ Head(stack).i \in DOMAIN heap0[Head(stack).value.p].slots
    /\ ret = Ok(heap0[Head(stack).value.p].slots[Head(stack).i])
    /\ ret.value.v = "String"
    /\ generation(heap, ret.value) = gcGen
    /\ NewCells # {}

---------------------------------------------------------------------------
(* C6: order preservation *)

\* C6: when deep_clone returns Ok, the clone of every Data, Closure or
\* PartialApplication has the kind, tag, function reference or callable of
\* its source, as many slots, and in slot i what deep_clone returns for
\* slot i of the source.
C6_OrderPreserved ==
    Succeeded =>
        \A a \in ClonedComposites :
            /\ CloneCell(a).kind = heap0[a].kind
            /\ CloneCell(a).tag = heap0[a].tag
            /\ CloneCell(a).function = heap0[a].function
            /\ Len(CloneCell(a).slots) = Len(heap0[a].slots)
            /\ \A i \in DOMAIN heap0[a].slots :
                  IsCloneOf(CloneCell(a).slots[i], heap0[a].slots[i])

\* an object of two different slots, one of them cloned, read back in order
C6_Witness ==
    /\ Succeeded
    /\ top.p \in ClonedComposites
    /\ Len(heap0[top.p].slots) >= 2
    /\ heap0[top.p].slots[1] = Val("Int", 5)
    /\ heap[ret.value.p].slots[1] = Val("Int", 5)
    /\ heap0[top.p].slots[2].v = "String"
    /\ heap[ret.value.p].slots[2] = visited[heap0[top.p].slots[2].p]
    /\ heap[ret.value.p].slots[2] # heap0[top.p].slots[2]

---------------------------------------------------------------------------
(* C7: existing heap state *)

\* C7: a step of deep_clone changes no cell that existed when deep_clone was
\* called; a cell it changes was free then, and is either allocated by the
\* step or has only its slots changed.
C7_ExistingHeapUntouched ==
    [][\A a \in Addr :
          heap'[a] # heap[a]
             => /\ heap0[a].kind = "Free"
                /\ \/ heap[a].kind = "Free"
                   \/ heap'[a] = [heap[a] EXCEPT !.slots = heap'[a].slots]]_vars

\* deep_clone has failed with a shell partly cloned and the source intact
C7_Witness ==
    /\ Failed
    /\ \A a \in SourceAddr : heap[a] = heap0[a]
    /\ \E a \in ClonedComposites :
          /\ CloneCell(a).slots # heap0[a].slots
          /\ \E i \in DOMAIN heap0[a].slots :
                heap0[a].slots[i].v \in UncloneableVariants

---------------------------------------------------------------------------
(* C10: strings *)

\* C10: an activation of deep_clone on a String younger than the target
\* whose address is not in visited allocates one cell, a string of the
\* target generation with the bytes of the source, returns String of that
\* cell, which is not the source, and records address -> returned value in
\* visited; on a String whose address is in visited it returns the recorded
\* value and allocates nothing.
C10_StringClone ==
    [][(/\ stack # <<>>
        /\ Head(stack).pc = "call"
        /\ Head(stack).value.v = "String"
        /\ generation(heap, Head(stack).value) > gcGen)
          => LET key == Head(stack).value.p
             IN  IF key \notin DOMAIN visited
                 THEN /\ ret'.tag = "Ok"
                      /\ ret'.value.v = "String"
                      /\ ret'.value.p # key
                      /\ heap[ret'.value.p].kind = "Free"
                      /\ heap' = [heap EXCEPT ![ret'.value.p] =
                                    Object("Str", gcGen, 0, NoFunction, <<>>,
                                           heap[key].bytes)]
                      /\ visited' = (key :> ret'.value) @@ visited
                 ELSE /\ ret' = Ok(visited[key])
                      /\ heap' = heap
                      /\ visited' = visited]_vars

\* the second slot holding one young string got the value recorded for the
\* first, a new string with the bytes of the source
C10_Witness ==
    /\ stack # <<>>
    /\ Head(stack).pc = "loop"
    /\ Head(stack).i = 2
    /\ Len(heap0[Head(stack).value.p].slots) >= 2
    /\ heap0[Head(stack).value.p].slots[1].v = "String"
    /\ heap0[Head(stack).value.p].slots[2] =
          heap0[Head(stack).value.p].slots[1]
    /\ generation(heap0, heap0[Head(stack).value.p].slots[1]) > gcGen
    /\ ret = Ok(heap[Head(stack).new_data].slots[1])
    /\ ret.value.p \in NewCells
    /\ heap[ret.value.p].bytes = heap0[heap0[Head(stack).value.p].slots[1].p].bytes
    /\ Cardinality({a \in NewCells : heap[a].kind = "Str"}) = 1

---------------------------------------------------------------------------
(* Equality of values *)

\* impl PartialEq for ClosureData
ClosureData_eq(x, y) == FALSE
\* impl PartialEq for PartialApplicationData
PartialApplicationData_eq(x, y) == FALSE
\* impl PartialEq for ExternFunction
ExternFunction_eq(x, y) == FALSE
\* impl PartialEq for Userdata: the addresses of the two objects
Userdata_eq(p, q) == p = q

RECURSIVE Value_eq(_, _, _, _)
RECURSIVE GcPtr_eq(_, _, _, _)

\* impl PartialEq for DataStruct: the tags and the fields, one by one
DataStruct_eq(h, x, y, n) ==
    /\ x.tag = y.tag
    /\ Len(x.slots) = Len(y.slots)
    /\ \A i \in DOMAIN x.slots : Value_eq(h, x.slots[i], y.slots[i], n)

\* GcPtr<T> == GcPtr<T> compares the two referents with T's equality.
\* n bounds the depth of the comparison of nested Data.
GcPtr_eq(h, p, q, n) ==
    CASE h[p].kind = "Str" -> h[p].bytes = h[q].bytes
      [] h[p].kind = "DataStruct" ->
            n > 0 /\ DataStruct_eq(h, h[p], h[q], n - 1)
      [] h[p].kind = "ExternFunction" -> ExternFunction_eq(h[p], h[q])
      [] h[p].kind = "ClosureData" -> ClosureData_eq(h[p], h[q])
      [] h[p].kind = "PartialApplicationData" ->
            PartialApplicationData_eq(h[p], h[q])
      [] h[p].kind = "Userdata" -> Userdata_eq(p, q)
      [] OTHER -> p = q

\* #[derive(PartialEq)] enum Value: the same variant and equal payloads
Value_eq(h, a, b, n) ==
    /\ a.v = b.v
    /\ IF a.v \in HeapVariants THEN GcPtr_eq(h, a.p, b.p, n) ELSE a.p = b.p

\* the heaps values are compared in: the root and the second object have
\* one payload
EqHeaps ==
    {SourceHeap(shape, 2, slots,
                Object(KindOf(shape.v), 2, shape.tag, shape.function, slots,
                       <<>>)) :
        shape \in RootShapes,
        slots \in {<<>>, <<Val("Int", 5)>>, <<Val("String", A.strYoung)>>}}

EqValues(h) ==
    {Val("Int", 5), Val("Int", 0), Val("Float", 0),
     Val("String", A.strYoung), Val("String", A.strMid),
     Val("Function", A.fnYoung), Val("Function", A.fnOld),
     Val("Userdata", A.userdata), Val("Closure", A.closure),
     Val(VariantOfKind(h[A.root].kind), A.root),
     Val(VariantOfKind(h[A.other].kind), A.other)}

InitPure(h, input) ==
    /\ heap = h
    /\ heap0 = h
    /\ gcGen = 0
    /\ visited = <<>>
    /\ stack = <<>>
    /\ ret = None
    /\ top = Val("Int", 0)
    /\ steps = 0
    /\ arg = input
    /\ out = Idle

InitEq ==
    \E h \in EqHeaps :
        \E a \in EqValues(h), b \in EqValues(h) :
            InitPure(h, [op |-> "eq", a |-> a, b |-> b])

\* a == b is evaluated
value_eq ==
    /\ arg.op = "eq"
    /\ out = Idle
    /\ out' = [op |-> "eq",
               result |-> Value_eq(heap, arg.a, arg.b, Cardinality(Addr))]
    /\ UNCHANGED <<heap, heap0, gcGen, visited, stack, ret, top, arg, steps>>

NextEq == value_eq

SpecEq == InitEq /\ [][NextEq]_vars

\* C8: two Closure, two PartialApplication or two Function values are
\* equal exactly when they refer to the same heap object.
C8_IdentityEquality ==
    (/\ out.op = "eq"
     /\ arg.a.v = arg.b.v
     /\ arg.a.v \in {"Closure", "PartialApplication", "Function"})
        => (out.result <=> arg.a.p = arg.b.p)

---------------------------------------------------------------------------
(* Traversal, and C9: placement *)

\* impl Traverseable for Value: the reference the value holds, if any
Value_traverse(value) == IF value.v \in HeapVariants THEN {value.p} ELSE {}

\* traversal of a slice or an Array of values
Values_traverse(values) ==
    UNION {Value_traverse(values[i]) : i \in DOMAIN values}

\* impl Traverseable for Callable: Closure(c) => c.traverse(gc), Extern => ()
Callable_traverse(function) ==
    IF function.c = "Closure" THEN {function.p} ELSE {}

\* impl Traverseable for Def
Def_traverse(d) == Values_traverse(d.elems)
\* impl Traverseable for ClosureDataDef
ClosureDataDef_traverse(d) == {d.function.p} \cup Values_traverse(d.elems)
\* impl Traverseable for ClosureInitDef
ClosureInitDef_traverse(d) == {d.function.p}
\* impl Traverseable for PartialApplicationDataDef
PartialApplicationDataDef_traverse(d) ==
    Callable_traverse(d.function) \cup Values_traverse(d.elems)

\* impl Traverseable for DataStruct
DataStruct_traverse(x) == Values_traverse(x.slots)
\* impl Traverseable for ClosureData
ClosureData_traverse(x) == {x.function.p} \cup Values_traverse(x.slots)
\* impl Traverseable for PartialApplicationData
PartialApplicationData_traverse(x) ==
    Callable_traverse(x.function) \cup Values_traverse(x.slots)

\* traversal of a definition, by its type
TraverseDef(d) ==
    CASE d.def = "Def" -> Def_traverse(d)
      [] d.def = "ClosureDataDef" -> ClosureDataDef_traverse(d)
      [] d.def = "ClosureInitDef" -> ClosureInitDef_traverse(d)
      [] d.def = "PartialApplicationDataDef" ->
            PartialApplicationDataDef_traverse(d)

\* traversal of a heap object, by its type
TraverseObject(x) ==
    CASE x.kind = "DataStruct" -> DataStruct_traverse(x)
      [] x.kind = "ClosureData" -> ClosureData_traverse(x)
      [] x.kind = "PartialApplicationData" ->
            PartialApplicationData_traverse(x)

DefValues ==
    {Val("Int", 5), Val("String", A.strYoung), Val("Closure", A.closure),
     Val("Function", A.fnYoung)}

DefFunctions ==
    {Callable("Bytecode", A.codeYoung), Callable("Bytecode", A.codeOld)}

DefCallables ==
    {Callable("Closure", A.closure), Callable("Extern", A.fnYoung)}

Defs ==
    {Def(tag, elems) : tag \in {0, 1}, elems \in SeqsUpTo(DefValues, MaxSlots)}
    \cup {ClosureDataDef(f, elems) :
             f \in DefFunctions, elems \in SeqsUpTo(DefValues, MaxSlots)}
    \cup {ClosureInitDef(f, count) : f \in DefFunctions, count \in 0..MaxSlots}
    \cup {PartialApplicationDataDef(c, elems) :
             c \in DefCallables, elems \in SeqsUpTo(DefValues, MaxSlots)}

InitDef ==
    \E d \in Defs :
        InitPure([a \in Addr |-> Leaf(a)], [op |-> "initialize", def |-> d])

\* gc.alloc(def): the definition initializes a cell of the heap
alloc_def ==
    /\ arg.op = "initialize"
    /\ out = Idle
    /\ LET a == GcAlloc(heap, gcGen, initialize(arg.def))
       IN  /\ heap' = a.heap
           /\ out' = [op |-> "initialize", ptr |-> a.ptr]
    /\ UNCHANGED <<heap0, gcGen, visited, stack, ret, top, arg, steps>>

NextDef == alloc_def

SpecDef == InitDef /\ [][NextDef]_vars

\* C9: traversing the object a definition has initialized visits the
\* references traversing the definition visits; the closure of
\* ClosureInitDef(function, count) has count upvalues, each Int(0), and its
\* traversal visits the function reference alone.
C9_PlacementCorrect ==
    out.op = "initialize" =>
        /\ TraverseObject(heap[out.ptr]) = TraverseDef(arg.def)
        /\ arg.def.def = "ClosureInitDef" =>
              /\ heap[out.ptr].kind = "ClosureData"
              /\ heap[out.ptr].function = arg.def.function
              /\ Len(heap[out.ptr].slots) = arg.def.count
              /\ \A i \in DOMAIN heap[out.ptr].slots :
                    heap[out.ptr].slots[i] = Val("Int", 0)
              /\ TraverseObject(heap[out.ptr]) = {arg.def.function.p}

\* a closure of two upvalues was initialized from ClosureInitDef
C9_Witness ==
    /\ out.op = "initialize"
    /\ arg.def.def = "ClosureInitDef"
    /\ arg.def.count = 2
    /\ heap[out.ptr].slots = <<Val("Int", 0), Val("Int", 0)>>

---------------------------------------------------------------------------
(* codegen: #[derive(Getable)], the from_value it generates *)

MaxFields == 2

\* syn::Field: a tuple field has the ident ""
Field(ident, ty) == [ident |-> ident, ty |-> ty]

\* syn::Fields: style is "Named", "Unnamed" or "Unit"
Fields(style, fields) == [style |-> style, fields |-> fields]

Unit == Fields("Unit", <<>>)

\* syn::Variant
Variant(ident, fields) == [ident |-> ident, fields |-> fields]

\* syn::DeriveInput: data is "Struct" or "Enum"
DeriveInput(data, ident, fields, variants) ==
    [data |-> data, ident |-> ident, fields |-> fields, variants |-> variants]

\* the native value a constructor expression builds: #ident { .. },
\* #ident ( .. ) or #ident::#variant_ident ..
Native(ident, variant, fields) ==
    [ident |-> ident, variant |-> variant, fields |-> fields]

\* Option<Variants>
Some(val) == [some |-> TRUE, val |-> val]
NoValue == [some |-> FALSE, val |-> Val("Int", 0)]

\* data.tag()
tag(h, data) == h[data.p].tag

\* data.get_variant(n): the n-th slot, counted from 0
get_variant(h, data, n) ==
    IF n + 1 \in DOMAIN h[data.p].slots
    THEN Some(h[data.p].slots[n + 1])
    ELSE NoValue

\* data.lookup_field(vm, name): the slot the vm's field names of this
\* aggregate give to name
lookup_field(h, vm, data, name) ==
    LET ks == {k \in DOMAIN vm[data.p] \cap DOMAIN h[data.p].slots :
                  vm[data.p][k] = name}
    IN  IF ks = {}
        THEN NoValue
        ELSE Some(h[data.p].slots[CHOOSE k \in ks : \A l \in ks : k <= l])

\* the types of the fields: both derive Getable themselves
\*   struct U;    enum E { V0, V1 }
FieldTypes == {"U", "E"}

TypeDecl(ty) ==
    IF ty = "U"
    THEN DeriveInput("Struct", "U", Unit, <<>>)
    ELSE DeriveInput("Enum", "E", Unit,
                     <<Variant("V0", Unit), Variant("V1", Unit)>>)

RECURSIVE from_value(_, _, _, _)

\* a constructor expression: its initializers are evaluated, and a panic in
\* one of them unwinds out of from_value
Construct(ident, variant, fields, inits) ==
    IF \E k \in DOMAIN inits : inits[k].tag = "Panic"
    THEN Panic
    ELSE Ok(Native(ident, variant,
                   [k \in DOMAIN fields |->
                       [ident |-> fields[k].ident, val |-> inits[k].value]]))

\* gen_struct_cons that takes the slot at the field's position when the name
\* is not found
gen_struct_cons_guess(h, vm, data, ident, fields) ==
    LET field_initializers ==
            [k \in DOMAIN fields |->
                LET val == lookup_field(h, vm, data, fields[k].ident)
                    pos == get_variant(h, data, k - 1)
                IN  IF val.some
                    THEN from_value(h, vm, TypeDecl(fields[k].ty), val.val)
                    ELSE IF pos.some
                    THEN from_value(h, vm, TypeDecl(fields[k].ty), pos.val)
                    ELSE Panic]
    IN  Construct(ident, "", fields, field_initializers)

gen_struct_cons(h, vm, data, ident, fields) ==
    LET field_initializers ==
            [k \in DOMAIN fields |->
                LET val == lookup_field(h, vm, data, fields[k].ident)
                IN  IF val.some
                    THEN from_value(h, vm, TypeDecl(fields[k].ty), val.val)
                    ELSE Panic]
    IN  Construct(ident, "", fields, field_initializers)

gen_tuple_struct_cons(h, vm, data, ident, fields) ==
    LET field_initializers ==
            [k \in DOMAIN fields |->
                LET val == get_variant(h, data, k - 1)
                IN  IF val.some
                    THEN from_value(h, vm, TypeDecl(fields[k].ty), val.val)
                    ELSE Panic]
    IN  Construct(ident, "", fields, field_initializers)

gen_tuple_variant_cons(h, vm, data, fields) ==
    [k \in DOMAIN fields |->
        LET val == get_variant(h, data, k - 1)
        IN  IF val.some
            THEN from_value(h, vm, TypeDecl(fields[k].ty), val.val)
            ELSE Panic]

gen_struct_variant_cons(h, vm, data, fields) ==
    [k \in DOMAIN fields |->
        LET val == get_variant(h, data, k - 1)
        IN  IF val.some
            THEN from_value(h, vm, TypeDecl(fields[k].ty), val.val)
            ELSE Panic]

\* the arm  #tag => #ident::#variant_ident#cons
gen_variant_match(h, vm, data, ident, variant) ==
    CASE variant.fields.style = "Unit" ->
            Ok(Native(ident, variant.ident, <<>>))
      [] variant.fields.style = "Unnamed" ->
            Construct(ident, variant.ident, variant.fields.fields,
                      gen_tuple_variant_cons(h, vm, data,
                                             variant.fields.fields))
      [] variant.fields.style = "Named" ->
            Construct(ident, variant.ident, variant.fields.fields,
                      gen_struct_variant_cons(h, vm, data,
                                              variant.fields.fields))

\* match data.tag() as usize { 0 => .., 1 => .., tag => panic!(..) }
derive_enum(h, vm, data, input) ==
    IF tag(h, data) + 1 \in DOMAIN input.variants
    THEN gen_variant_match(h, vm, data, input.ident,
                           input.variants[tag(h, data) + 1])
    ELSE Panic

derive_struct(h, vm, data, input) ==
    CASE input.fields.style = "Named" ->
            gen_struct_cons(h, vm, data, input.ident, input.fields.fields)
      [] input.fields.style = "Unnamed" ->
            gen_tuple_struct_cons(h, vm, data, input.ident,
                                  input.fields.fields)
      [] input.fields.style = "Unit" ->
            Ok(Native(input.ident, "", <<>>))

derive(h, vm, data, input) ==
    IF input.data = "Struct"
    THEN derive_struct(h, vm, data, input)
    ELSE derive_enum(h, vm, data, input)

\* fn from_value(vm, variants) -> Self of the generated impl
from_value(h, vm, input, variants) ==
    IF variants.v = "Data"
    THEN derive(h, vm, variants, input)
    ELSE Panic

---------------------------------------------------------------------------
(* The declarations and values from_value is applied to *)

FieldIdents == {"a", "b", "c"}

Distinct(s) == \A i \in DOMAIN s, j \in DOMAIN s : s[i] = s[j] => i = j

NamedFields ==
    {fs \in SeqsUpTo([ident : FieldIdents, ty : FieldTypes], MaxFields) :
        Distinct([k \in DOMAIN fs |-> fs[k].ident])}

UnnamedFields ==
    {[k \in DOMAIN ts |-> Field("", ts[k])] :
        ts \in SeqsUpTo(FieldTypes, MaxFields)}

StructInputs ==
    {DeriveInput("Struct", "S", Fields("Named", fs), <<>>) :
        fs \in NamedFields}
    \cup {DeriveInput("Struct", "S", Fields("Unnamed", fs), <<>>) :
            fs \in UnnamedFields}
    \cup {DeriveInput("Struct", "S", Unit, <<>>)}

VariantFields ==
    {Unit,
     Fields("Unnamed", <<Field("", "E")>>),
     Fields("Unnamed", <<Field("", "E"), Field("", "U")>>),
     Fields("Named", <<Field("b", "E"), Field("a", "E")>>),
     Fields("Named", <<Field("a", "U")>>)}

EnumInputs ==
    {DeriveInput("Enum", "T", Unit,
                 [k \in DOMAIN vs |-> Variant("V" \o ToString(k - 1), vs[k])]) :
        vs \in SeqsUpTo(VariantFields, MaxFields)}

DeriveInputs == StructInputs \cup EnumInputs

\* the aggregate converted, and the two aggregates its slots refer to
G == [root |-> 1, first |-> 2, second |-> 3]

GetSlotValues ==
    {Val("Data", G.first), Val("Data", G.second), Val("Int", 1)}

GetHeap(root) ==
    [a \in Addr |->
        CASE a = G.root -> root
          [] a = G.first -> Object("DataStruct", 0, 0, NoFunction, <<>>, <<>>)
          [] a = G.second -> Object("DataStruct", 0, 1, NoFunction, <<>>, <<>>)
          [] OTHER -> Leaf(a)]

\* the field names the vm knows for the aggregates: one per slot of root
Layout(names) == [a \in Addr |-> IF a = G.root THEN names ELSE <<>>]

NotData == {Val("Int", 1), Val("Float", 0), Val("String", A.strMid)}

InitGet ==
    \E input \in DeriveInputs :
        \/ \E t \in 0..MaxFields, slots \in SeqsUpTo(GetSlotValues, MaxFields) :
              \E names \in SeqsUpTo(FieldIdents, MaxFields) :
                 /\ Len(names) = Len(slots)
                 /\ Distinct(names)
                 /\ InitPure(GetHeap(Object("DataStruct", 0, t, NoFunction,
                                            slots, <<>>)),
                             [op |-> "from_value", input |-> input,
                              vm |-> Layout(names),
                              value |-> Val("Data", G.root)])
        \/ \E value \in NotData :
              InitPure(GetHeap(Object("DataStruct", 0, 0, NoFunction,
                                      <<>>, <<>>)),
                       [op |-> "from_value", input |-> input,
                        vm |-> Layout(<<>>), value |-> value])

\* <T as Getable>::from_value(vm, value) for the declared type T
call_from_value ==
    /\ arg.op = "from_value"
    /\ out = Idle
    /\ out' = [op |-> "from_value",
               result |-> from_value(heap, arg.vm, arg.input, arg.value)]
    /\ UNCHANGED <<heap, heap0, gcGen, visited, stack, ret, top, arg, steps>>

NextGet == call_from_value

SpecGet == InitGet /\ [][NextGet]_vars

---------------------------------------------------------------------------
(* C11: layout mismatch *)

Converted == out.op = "from_value"

\* the constructor the declaration and the tag select, and its fields
Selected ==
    IF arg.input.data = "Struct"
    THEN [ok |-> TRUE, variant |-> "", fields |-> arg.input.fields.fields]
    ELSE IF heap[arg.value.p].tag < Len(arg.input.variants)
    THEN [ok |-> TRUE,
          variant |-> arg.input.variants[heap[arg.value.p].tag + 1].ident,
          fields |->
              arg.input.variants[heap[arg.value.p].tag + 1].fields.fields]
    ELSE [ok |-> FALSE, variant |-> "", fields |-> <<>>]

ByName == arg.input.data = "Struct" /\ arg.input.fields.style = "Named"

\* where the slot of the k-th declared field is: 0 when the lookup reports
\* not found or out of range
SlotFor(k) ==
    IF ByName
    THEN IF \E j \in DOMAIN arg.vm[arg.value.p] :
               arg.vm[arg.value.p][j] = Selected.fields[k].ident
         THEN CHOOSE j \in DOMAIN arg.vm[arg.value.p] :
                 arg.vm[arg.value.p][j] = Selected.fields[k].ident
         ELSE 0
    ELSE IF k <= Len(heap[arg.value.p].slots) THEN k ELSE 0

LookupFails == \E k \in DOMAIN Selected.fields : SlotFor(k) = 0

\* the k-th field's own conversion of the slot looked up for it
FieldConverted(k) ==
    from_value(heap, arg.vm, TypeDecl(Selected.fields[k].ty),
               heap[arg.value.p].slots[SlotFor(k)])

\* C11: the derived from_value aborts or builds the native value; it aborts
\* when the input is not a Data aggregate, when the tag is not the index of
\* a declared variant, and when a field lookup reports not found or out of
\* range; a value it builds is the struct, or the variant whose declaration
\* index is the tag, with every field converted from the slot looked up for
\* it, by name in a named struct and by 0-based position otherwise.
C11_LayoutMismatchAborts ==
    Converted =>
        /\ out.result.tag \in {"Ok", "Panic"}
        /\ arg.value.v # "Data" => out.result.tag = "Panic"
        /\ arg.value.v = "Data" =>
              /\ ~Selected.ok => out.result.tag = "Panic"
              /\ Selected.ok /\ LookupFails => out.result.tag = "Panic"
              /\ out.result.tag = "Ok" =>
                    /\ Selected.ok
                    /\ ~LookupFails
                    /\ out.result.value.ident = arg.input.ident
                    /\ out.result.value.variant = Selected.variant
                    /\ Len(out.result.value.fields) = Len(Selected.fields)
                    /\ \A k \in DOMAIN Selected.fields :
                          /\ FieldConverted(k).tag = "Ok"
                          /\ out.result.value.fields[k] =
                                [ident |-> Selected.fields[k].ident,
                                 val |-> FieldConverted(k).value]

\* a named struct is converted from an aggregate that has the slot of one
\* of its fields and lacks the slot of another: from_value has aborted
C11_Witness ==
    /\ Converted
    /\ arg.value.v = "Data"
    /\ ByName
    /\ LookupFails
    /\ \E k \in DOMAIN Selected.fields :
          /\ SlotFor(k) # 0
          /\ FieldConverted(k).tag = "Ok"
    /\ Len(heap[arg.value.p].slots) = Len(Selected.fields)
    /\ out.result.tag = "Panic"

---------------------------------------------------------------------------
(* C12: the visited map *)

\* every key is a source object younger than the target, and its value has
\* the variant of that object and refers to a cell this invocation allocated;
\* no two keys share a cell, and every allocated cell is recorded
VisitedWellFormed ==
    /\ \A k \in DOMAIN visited :
          /\ k \in SourceAddr
          /\ heap0[k].gen > gcGen
          /\ heap0[k].kind \in Cloneable
          /\ KindOf(visited[k].v) = heap0[k].kind
          /\ visited[k].p \in NewCells
          /\ heap[visited[k].p].kind = heap0[k].kind
          /\ heap[visited[k].p].gen = gcGen
    /\ \A k \in DOMAIN visited, l \in DOMAIN visited :
          visited[k].p = visited[l].p => k = l
    /\ Cardinality(NewCells) = Cardinality(DOMAIN visited)

\* an object whose slots are being cloned is in visited already
RegisteredBeforeRecursing ==
    \A n \in DOMAIN stack :
        stack[n].pc = "loop"
           => /\ stack[n].value.p \in DOMAIN visited
              /\ visited[stack[n].value.p].p = stack[n].new_data

\* a step removes and overwrites no entry; the entry it inserts is for a
\* cell it allocates, whose slots are those of the source, none cloned yet
InsertedOnceAtAllocation ==
    /\ \A k \in DOMAIN visited :
          k \in DOMAIN visited' /\ visited'[k] = visited[k]
    /\ \A k \in DOMAIN visited' \ DOMAIN visited :
          /\ heap[visited'[k].p].kind = "Free"
          /\ heap'[visited'[k].p].kind # "Free"
          /\ heap'[visited'[k].p].slots = heap0[k].slots
          /\ stack' # <<>> => Head(stack').value.p = k \/ heap0[k].kind = "Str"
    /\ Cardinality(DOMAIN visited' \ DOMAIN visited) <= 1

\* C12: in every state of a deep_clone started with an empty visited map,
\* each key of visited is the address of a source object of a generation
\* greater than the target's and maps to a value of the source's variant
\* whose cell this invocation allocated in the target heap; the allocations
\* are as many as the entries; an entry is inserted in the step that
\* allocates its cell, before any slot of it is cloned, and is never
\* overwritten or removed.
C12_VisitedInvariant ==
    /\ [](VisitedWellFormed /\ RegisteredBeforeRecursing)
    /\ [][InsertedOnceAtAllocation]_vars

\* a shell is registered, with the slots of its source, and none cloned yet,
\* while an object registered before it is still being cloned
C12_Witness ==
    /\ Len(stack) >= 2
    /\ Head(stack).pc = "loop"
    /\ Head(stack).i = 1
    /\ ret.tag = "None"
    /\ Cardinality(DOMAIN visited) >= 2
    /\ Head(stack).value.p \in DOMAIN visited
    /\ heap[Head(stack).new_data].slots = heap0[Head(stack).value.p].slots
    /\ Len(heap0[Head(stack).value.p].slots) >= 1
    /\ Cardinality(NewCells) = Cardinality(DOMAIN visited)

=============================================================================
